---- MODULE Spec2Model ----
(***************************************************************************)
(* Construction of the control-flow graph of a traced model                *)
(* (model_partition/graph/control_flow_graph.py).                          *)
(*                                                                         *)
(* Python objects are modelled as a heap.  A Node object is identified by  *)
(* its creation number (1, 2, ...); obj[n] holds its fields.  The field    *)
(* in_nodes holds a REFERENCE to a set object, because copy(new_node)      *)
(* makes the copies share the in_nodes set of the node they are copied     *)
(* from; sets[r] is the content of the set object r.  out_nodes is never   *)
(* shared (the copy gets a fresh set()), so it is stored by value.         *)
(* Strings are sequences of one-character strings.                         *)
(***************************************************************************)
EXTENDS Integers, Sequences, FiniteSets, TLC

VARIABLES
    pc,                       \* position in Graph.__init__ / _build_graph
    profiled_layers,          \* Graph.profiled_layers
    num_inputs,               \* Graph.num_inputs
    num_inputs_buffs_params,  \* Graph.num_inputs_buffs_params
    nodes,                    \* Graph.nodes: sequence of node references
    obj,                      \* heap of Node objects
    sets,                     \* heap of the in_nodes set objects
    op_idx,                   \* enumerate index of the next trace op
    num_extra_nodes,          \* local of _add_OP_nodes
    trace,                    \* the trace ops consumed so far
    out_indices,              \* unique names of the trace outputs
    weights,                  \* the scope -> weight dictionary
    \* partition_model (model_Inference/graph/partition_model.py)
    ppc,                      \* position in partition_model
    edges,                    \* the directed edges of the graph to partition
    nodew,                    \* graph.get_weights()
    solver_weights,           \* weights = [weight_func(w) for w in nodew]
    nparts,                   \* first result of part_graph
    partition,                \* second result of part_graph
    \* OrderedSet (pytorch_Gpipe/utils.py)
    cell,                     \* heap of the list cells [key, prev, next]
    map,                      \* OrderedSet.map: key -> cell
    inserted                  \* the keys present, in the order of insertion

gvars == <<pc, profiled_layers, num_inputs, num_inputs_buffs_params, nodes,
           obj, sets, op_idx, num_extra_nodes, trace, out_indices, weights>>

pvars == <<ppc, edges, nodew, solver_weights, nparts, partition>>

ovars == <<cell, map, inserted>>

vars == <<gvars, pvars, ovars>>

----------------------------------------------------------------------------
(* Bounds of the model *)

MaxIO == 2          \* trace inputs (model inputs, parameters and buffers)
MaxOps == 2         \* trace ops
MaxOutputs == 3     \* output slots of one trace op
MaxFanIn == 2       \* operands of one trace op
MaxExtra == 2       \* secondary nodes in one graph
MaxTraceOutputs == 1 \* outputs of the trace
MaxNodes == 4       \* nodes of a graph handed to partition_model's solver
MaxParts == 2       \* num_gpus

----------------------------------------------------------------------------
(* Strings *)

DigitChar == <<"0", "1", "2", "3", "4", "5", "6", "7", "8", "9">>

RECURSIVE Str(_)
Str(n) ==
    IF n < 10 THEN <<DigitChar[n + 1]>>
    ELSE Str(n \div 10) \o <<DigitChar[(n % 10) + 1]>>

StartsWith(s, p) ==
    /\ Len(p) <= Len(s)
    /\ SubSeq(s, 1, Len(p)) = p

Contains(s, sub) ==
    \E i \in 1..(Len(s) - Len(sub) + 1) : SubSeq(s, i, i + Len(sub) - 1) = sub

ConstantMark == <<":", ":", "C", "o", "n", "s", "t", "a", "n", "t">>

InputPrefix == <<"i", "n", "p", "u", "t">>

----------------------------------------------------------------------------
(* The inputs of Graph construction *)

\* scope names of a model N with a profiled layer N/a and a profiled layer N/b
ScopeN == <<"N">>
ScopeA == <<"N", "/", "a">>
ScopeB == <<"N", "/", "b">>

ProfiledLayerLists == { <<ScopeA, ScopeB>> }

\* scopeName() of a trace op
ScopeNames == {ScopeN, ScopeA}

\* kind() of a trace op: an ordinary operator, and operators of the prim
\* namespace whose name contains "::Constant" (prim::Constant has one output,
\* prim::ConstantChunk has one output per chunk and takes an operand)
KindOp == <<"a", ":", ":", "t">>
KindConstant == <<"p">> \o ConstantMark
Kinds == {KindOp, KindConstant}

\* buffer_param_names, aligned with the trace inputs after the model inputs
ParamName(i) == <<"N", "/", "P", "["  >> \o Str(i) \o <<"]">>

\* node.type().sizes() of a trace input
Sizes == { <<2>>, <<2, 3>> }

\* the weights a profiler can report
WeightValues == {7}

----------------------------------------------------------------------------
(* Node *)

\* Node.__init__: out_nodes is a fresh set, weight as given
Node(scope, idx, node_type, in_ref, weight) ==
    [scope |-> scope, idx |-> idx, type |-> node_type, weight |-> weight,
     out_nodes |-> {}, in_nodes |-> in_ref]

\* the graph as one value
Graph(ns, o, s) == [nodes |-> ns, obj |-> o, sets |-> s]

G == Graph(nodes, obj, sets)

\* the content of n.in_nodes and n.out_nodes
InNodes(g, n) == g.sets[g.obj[n].in_nodes]
OutNodes(g, n) == g.obj[n].out_nodes

\* Node.add_out_node / remove_out_node / add_in_node / remove_in_node with a
\* set argument (a single node is the singleton case)
AddOutNode(g, n, S) ==
    [g EXCEPT !.obj[n].out_nodes = @ \cup S]
RemoveOutNode(g, n, S) ==
    [g EXCEPT !.obj[n].out_nodes = @ \ S]
AddInNode(g, n, S) ==
    [g EXCEPT !.sets[g.obj[n].in_nodes] = @ \cup S]
RemoveInNode(g, n, S) ==
    [g EXCEPT !.sets[g.obj[n].in_nodes] = @ \ S]

----------------------------------------------------------------------------
(* Graph._add_IO_nodes *)

RECURSIVE Product(_)
Product(sizes) ==
    IF sizes = <<>> THEN 1 ELSE Head(sizes) * Product(Tail(sizes))

IONode(idx, sizes, n_in) ==
    IF idx < n_in
    THEN Node(InputPrefix \o Str(idx), idx, "IN", idx + 1, Product(sizes))
    ELSE Node(ParamName(idx - n_in), idx, "BUFF_PARAM", idx + 1, Product(sizes))

AddIONodes ==
    /\ pc = "io"
    /\ \E n \in 1..MaxIO : \E sz \in [1..n -> Sizes] :
         /\ num_inputs <= n
         /\ obj' = [i \in 1..n |-> IONode(i - 1, sz[i], num_inputs)]
         /\ sets' = [i \in 1..n |-> {}]
         /\ nodes' = [i \in 1..n |-> i]
         /\ num_inputs_buffs_params' = n
    /\ pc' = "ops"
    /\ UNCHANGED <<pvars, ovars>>
    /\ UNCHANGED <<profiled_layers, num_inputs, op_idx, num_extra_nodes,
                   trace, out_indices, weights>>

----------------------------------------------------------------------------
(* Graph._find_encasing_layer *)

\* the loop without the comparison of lengths: the last declared scope that
\* is a prefix wins
RECURSIVE FindLastFrom(_, _, _, _)
FindLastFrom(layers, i, scopeName, most_specific_scope) ==
    IF i > Len(layers) THEN most_specific_scope
    ELSE IF StartsWith(scopeName, layers[i])
         THEN FindLastFrom(layers, i + 1, scopeName, layers[i])
         ELSE FindLastFrom(layers, i + 1, scopeName, most_specific_scope)

FindLastEncasingLayer(layers, scopeName) ==
    FindLastFrom(layers, 1, scopeName, <<>>)

RECURSIVE FindFrom(_, _, _, _)
FindFrom(layers, i, scopeName, most_specific_scope) ==
    IF i > Len(layers) THEN most_specific_scope
    ELSE IF /\ StartsWith(scopeName, layers[i])
            /\ Len(layers[i]) > Len(most_specific_scope)
         THEN FindFrom(layers, i + 1, scopeName, layers[i])
         ELSE FindFrom(layers, i + 1, scopeName, most_specific_scope)

FindEncasingLayer(layers, scopeName) == FindFrom(layers, 1, scopeName, <<>>)

----------------------------------------------------------------------------
(* Graph._add_OP_nodes: one iteration of the loop over the trace ops *)

\* the secondary nodes of output slots i .. k-1 of the op whose node is new
RECURSIVE AddOutputNodes(_, _, _, _, _)
AddOutputNodes(g, new, node_idx, i, k) ==
    IF i >= k THEN g
    ELSE
      LET out_node == Len(g.obj) + 1
          \* copy(new_node): every field of new_node, the same in_nodes set
          cp == [g.obj[new] EXCEPT !.out_nodes = {}, !.idx = @ + i]
          g1 == [g EXCEPT !.obj = Append(@, cp), !.sets = Append(@, {})]
          prev == g1.nodes[node_idx + i - 1 + 1]
          g2 == AddInNode(g1, out_node, {prev})
          g3 == AddOutNode(g2, prev, {out_node})
          g4 == [g3 EXCEPT !.nodes = Append(@, out_node)]
      IN AddOutputNodes(g4, new, node_idx, i + 1, k)

RECURSIVE AddOutAll(_, _, _)
AddOutAll(g, S, new) ==
    IF S = {} THEN g
    ELSE LET n == CHOOSE x \in S : TRUE
         IN AddOutAll(AddOutNode(g, n, {new}), S \ {n}, new)

\* a lookup that wraps around the end of the list instead of failing
ListIndexWrapping(list, i) == { list[(i % Len(list)) + 1] }

\* self.nodes[i]: the element at position i, none when i is out of range
\* (the list raises IndexError)
ListIndex(list, i) == IF i < Len(list) THEN { list[i + 1] } ELSE {}

\* line 160 raises: some input of the op names no element of self.nodes
RaisesIndexError(g, op) == \E i \in op.inputs : ListIndex(g.nodes, i) = {}

AddOPNodeTo(g, layers, nibp, idx, extra, op) ==
    LET layer_scope == FindEncasingLayer(layers, op.scopeName)
        input_nodes == UNION { ListIndex(g.nodes, i) : i \in op.inputs }
        node_idx == nibp + idx + extra
        new == Len(g.obj) + 1
        new_node ==
            IF layer_scope # <<>>
            THEN Node(layer_scope, node_idx, "LAYER", new, 0)
            ELSE Node(op.scopeName \o <<"/">> \o op.kind \o Str(idx),
                      node_idx, "OP", new, 0)
        g1 == [g EXCEPT !.obj = Append(@, new_node),
                        !.sets = Append(@, input_nodes)]
        g2 == AddOutAll(g1, input_nodes, new)
        g3 == [g2 EXCEPT !.nodes = Append(@, new)]
    IN AddOutputNodes(g3, new, node_idx, 1, op.n_outputs)

TraceOps(n_nodes) ==
    { [scopeName |-> s, kind |-> k, inputs |-> ins, n_outputs |-> n] :
        s \in ScopeNames, k \in Kinds,
        ins \in { S \in SUBSET (0..n_nodes) : Cardinality(S) <= MaxFanIn },
        n \in 1..MaxOutputs }

\* one iteration of the loop, for a trace op out of ops
AddOPNodeFrom(ops) ==
    /\ pc = "ops"
    /\ op_idx < MaxOps
    /\ \E op \in ops :
         /\ num_extra_nodes + op.n_outputs - 1 <= MaxExtra
         /\ trace' = Append(trace, op)
         /\ IF RaisesIndexError(G, op)
            THEN \* the exception of line 160 leaves the constructor
                 /\ pc' = "IndexError"
                 /\ UNCHANGED <<nodes, obj, sets, num_extra_nodes, op_idx>>
            ELSE LET g == AddOPNodeTo(G, profiled_layers,
                                      num_inputs_buffs_params,
                                      op_idx, num_extra_nodes, op)
                 IN /\ nodes' = g.nodes
                    /\ obj' = g.obj
                    /\ sets' = g.sets
                    /\ num_extra_nodes' = num_extra_nodes + op.n_outputs - 1
                    /\ op_idx' = op_idx + 1
                    /\ pc' = pc
    /\ UNCHANGED <<pvars, ovars>>
    /\ UNCHANGED <<profiled_layers, num_inputs, num_inputs_buffs_params,
                   out_indices, weights>>

AddOPNode == AddOPNodeFrom(TraceOps(Len(nodes)))

----------------------------------------------------------------------------
(* Graph._remove_nodes *)

\* the two conditions the graph is pruned with
ConstantCondition == [name |-> "constant", out_indices |-> {}]
NowhereCondition(outs) == [name |-> "nowhere", out_indices |-> outs]

\* lambda n: "::Constant" in n.scope
IsConstant(g, n) == Contains(g.obj[n].scope, ConstantMark)

\* going_nowhere without the test of the trace outputs
GoingNowhereIgnoringOutputs(g, n, outs) == OutNodes(g, n) = {}

\* going_nowhere(node)
GoingNowhere(g, n, outs) ==
    /\ OutNodes(g, n) = {}
    /\ g.obj[n].idx \notin outs

Condition(g, n, c) ==
    IF c.name = "constant" THEN IsConstant(g, n)
    ELSE GoingNowhere(g, n, c.out_indices)

\* the first loop without in_node.add_out_node(node.out_nodes)
SpliceInWithoutBridge(g, node, in_node) == RemoveOutNode(g, in_node, {node})

\* for in_node in node.in_nodes: one iteration
SpliceIn(g, node, in_node) ==
    LET g1 == RemoveOutNode(g, in_node, {node})
    IN AddOutNode(g1, in_node, OutNodes(g1, node))

\* for out_node in node.out_nodes: one iteration
SpliceOut(g, node, out_node) ==
    LET g1 == RemoveInNode(g, out_node, {node})
    IN AddInNode(g1, out_node, InNodes(g1, node))

\* The two loops iterate over Python sets of objects hashed by address, so
\* the order of iteration is not determined by the program: every order is
\* a possible run.  The first loop changes no in_nodes set and the second
\* no out_nodes set, so the set iterated over is the one the loop started
\* with.
RECURSIVE InLoop(_, _, _)
InLoop(g, node, todo) ==
    IF todo = {} THEN {g}
    ELSE UNION { InLoop(SpliceIn(g, node, x), node, todo \ {x}) : x \in todo }

RECURSIVE OutLoop(_, _, _)
OutLoop(g, node, todo) ==
    IF todo = {} THEN {g}
    ELSE UNION { OutLoop(SpliceOut(g, node, x), node, todo \ {x}) : x \in todo }

\* connect inputs to outputs directly: the graphs one removal can leave
Splice(g, node) ==
    UNION { OutLoop(g1, node, OutNodes(g1, node)) :
              g1 \in InLoop(g, node, InNodes(g, node)) }

Reverse(s) == [i \in 1..Len(s) |-> s[Len(s) + 1 - i]]

\* for node in nodes: the iterations from position i on; a run is the graph,
\* optimized_graph and changed
RECURSIVE ForNodes(_, _, _, _, _, _)
ForNodes(g, order, i, optimized_graph, changed, c) ==
    IF i > Len(order)
    THEN { [g |-> g, optimized_graph |-> optimized_graph, changed |-> changed] }
    ELSE IF Condition(g, order[i], c)
         THEN UNION { ForNodes(g1, order, i + 1, optimized_graph, TRUE, c) :
                        g1 \in Splice(g, order[i]) }
         ELSE ForNodes(g, order, i + 1, Append(optimized_graph, order[i]),
                       changed, c)

\* _remove_nodes with the test of reverse inverted
RECURSIVE RemoveNodesBackwards(_, _, _)
RemoveNodesBackwards(g, c, reverse) ==
    UNION { IF r.changed
            THEN RemoveNodesBackwards([r.g EXCEPT !.nodes = r.optimized_graph],
                                      c, reverse)
            ELSE { [r.g EXCEPT !.nodes = r.optimized_graph] } :
            r \in ForNodes(g, IF reverse THEN g.nodes ELSE Reverse(g.nodes),
                           1, <<>>, FALSE, c) }

\* while changed: the graphs _remove_nodes can leave
RECURSIVE RemoveNodes(_, _, _)
RemoveNodes(g, c, reverse) ==
    UNION { IF r.changed
            THEN RemoveNodes([r.g EXCEPT !.nodes = r.optimized_graph], c, reverse)
            ELSE { [r.g EXCEPT !.nodes = r.optimized_graph] } :
            r \in ForNodes(g, IF reverse THEN Reverse(g.nodes) ELSE g.nodes,
                           1, <<>>, FALSE, c) }

\* Graph._remove_constant_nodes
RemoveConstantNodes ==
    /\ pc = "ops"
    /\ \E g \in RemoveNodes(G, ConstantCondition, FALSE) :
         /\ nodes' = g.nodes
         /\ obj' = g.obj
         /\ sets' = g.sets
    /\ pc' = "constants_removed"
    /\ UNCHANGED <<pvars, ovars>>
    /\ UNCHANGED <<profiled_layers, num_inputs, num_inputs_buffs_params,
                   op_idx, num_extra_nodes, trace, out_indices, weights>>

\* the unique names of trace_graph.outputs(): values of the trace
TraceOutputs ==
    { S \in SUBSET (0..(Len(obj) - 1)) :
        Cardinality(S) >= 1 /\ Cardinality(S) <= MaxTraceOutputs }

\* Graph._remove_nodes_that_go_nowhere
RemoveNodesThatGoNowhere ==
    /\ pc = "constants_removed"
    /\ \E outs \in TraceOutputs :
         /\ out_indices' = outs
         /\ \E g \in RemoveNodes(G, NowhereCondition(outs), FALSE) :
              /\ nodes' = g.nodes
              /\ obj' = g.obj
              /\ sets' = g.sets
    /\ pc' = "pruned"
    /\ UNCHANGED <<pvars, ovars>>
    /\ UNCHANGED <<profiled_layers, num_inputs, num_inputs_buffs_params,
                   op_idx, num_extra_nodes, trace, weights>>

----------------------------------------------------------------------------
(* Graph._normalize_indices *)

RECURSIVE NormalizeFrom(_, _)
NormalizeFrom(g, i) ==
    IF i > Len(g.nodes) THEN g
    ELSE NormalizeFrom([g EXCEPT !.obj[g.nodes[i]].idx = i - 1], i + 1)

\* renumbering that starts at 1: enumerate(self.nodes, 1)
NormalizeIndicesFromOne(g) ==
    [g EXCEPT !.obj = [n \in DOMAIN g.obj |->
        IF \E i \in 1..Len(g.nodes) : g.nodes[i] = n
        THEN [g.obj[n] EXCEPT
                !.idx = CHOOSE i \in 1..Len(g.nodes) : g.nodes[i] = n]
        ELSE g.obj[n]]]

NormalizeIndicesOf(g) == NormalizeFrom(g, 1)

NormalizeIndices ==
    /\ pc = "pruned"
    /\ obj' = NormalizeIndicesOf(G).obj
    /\ pc' = "normalized"
    /\ UNCHANGED <<pvars, ovars>>
    /\ UNCHANGED <<profiled_layers, num_inputs, num_inputs_buffs_params,
                   nodes, sets, op_idx, num_extra_nodes, trace, out_indices,
                   weights>>

----------------------------------------------------------------------------
(* Graph.__init__: the weights given by the caller *)

\* weights.get(key, default); the dictionary is a sequence of key/value pairs
\* with distinct keys
DictGet(d, key, default) ==
    IF \E i \in 1..Len(d) : d[i][1] = key
    THEN d[CHOOSE i \in 1..Len(d) : d[i][1] = key][2]
    ELSE default

RECURSIVE AssignWeightsFrom(_, _, _)
AssignWeightsFrom(g, d, i) ==
    IF i > Len(g.nodes) THEN g
    ELSE LET n == g.nodes[i]
         IN AssignWeightsFrom(
              [g EXCEPT !.obj[n].weight = DictGet(d, g.obj[n].scope, @)],
              d, i + 1)

AssignWeightsOf(g, d) == AssignWeightsFrom(g, d, 1)

\* the keys of the dictionary: the profiler reports the profiled layers
WeightKeys == { profiled_layers[i] : i \in 1..Len(profiled_layers) }

WeightDicts ==
    { <<>> } \cup { << <<k, w>> >> : k \in WeightKeys, w \in WeightValues }

AssignWeights ==
    /\ pc = "normalized"
    /\ \E d \in WeightDicts :
         /\ weights' = d
         /\ obj' = AssignWeightsOf(G, d).obj
    /\ pc' = "built"
    /\ UNCHANGED <<pvars, ovars>>
    /\ UNCHANGED <<profiled_layers, num_inputs, num_inputs_buffs_params,
                   nodes, sets, op_idx, num_extra_nodes, trace, out_indices>>

----------------------------------------------------------------------------
(* The passes applied once more to the graph that was built *)

RemoveConstantNodesAgain ==
    /\ pc = "built"
    /\ \E g \in RemoveNodes(G, ConstantCondition, FALSE) :
         /\ nodes' = g.nodes
         /\ obj' = g.obj
         /\ sets' = g.sets
    /\ pc' = "again"
    /\ UNCHANGED <<pvars, ovars>>
    /\ UNCHANGED <<profiled_layers, num_inputs, num_inputs_buffs_params,
                   op_idx, num_extra_nodes, trace, out_indices, weights>>

RemoveNodesThatGoNowhereAgain ==
    /\ pc = "built"
    /\ \E g \in RemoveNodes(G, NowhereCondition(out_indices), FALSE) :
         /\ nodes' = g.nodes
         /\ obj' = g.obj
         /\ sets' = g.sets
    /\ pc' = "again"
    /\ UNCHANGED <<pvars, ovars>>
    /\ UNCHANGED <<profiled_layers, num_inputs, num_inputs_buffs_params,
                   op_idx, num_extra_nodes, trace, out_indices, weights>>

----------------------------------------------------------------------------
(* Graph.adjacency_list and Graph.get_weights *)

\* the row of a node as the set of the indices listed in it
AdjacencyRow(g, n, directed) ==
    IF ~directed
    THEN { g.obj[m].idx : m \in OutNodes(g, n) \cup InNodes(g, n) }
    ELSE { g.obj[m].idx : m \in OutNodes(g, n) }

AdjacencyList(g, directed) ==
    [i \in 1..Len(g.nodes) |-> AdjacencyRow(g, g.nodes[i], directed)]

GetWeights(g) == [i \in 1..Len(g.nodes) |-> g.obj[g.nodes[i]].weight]

----------------------------------------------------------------------------

\* the state of the parts of the repository a specification leaves alone
NoGraph ==
    /\ pc = "idle"
    /\ profiled_layers = <<>>
    /\ num_inputs = 0
    /\ num_inputs_buffs_params = 0
    /\ nodes = <<>>
    /\ obj = <<>>
    /\ sets = <<>>
    /\ op_idx = 0
    /\ num_extra_nodes = 0
    /\ trace = <<>>
    /\ out_indices = {}
    /\ weights = <<>>

NoPartition ==
    /\ ppc = "idle"
    /\ edges = {}
    /\ nodew = <<>>
    /\ solver_weights = <<>>
    /\ nparts = 0
    /\ partition = <<>>

NoOrderedSet ==
    /\ cell = <<>>
    /\ map = <<>>
    /\ inserted = <<>>

Init ==
    /\ NoPartition
    /\ NoOrderedSet
    /\ pc = "io"
    /\ profiled_layers \in ProfiledLayerLists
    /\ num_inputs \in 1..MaxIO
    /\ num_inputs_buffs_params = 0
    /\ nodes = <<>>
    /\ obj = <<>>
    /\ sets = <<>>
    /\ op_idx = 0
    /\ num_extra_nodes = 0
    /\ trace = <<>>
    /\ out_indices = {}
    /\ weights = <<>>

Next ==
    \/ AddIONodes
    \/ AddOPNode
    \/ RemoveConstantNodes
    \/ RemoveNodesThatGoNowhere
    \/ NormalizeIndices
    \/ AssignWeights
    \/ RemoveConstantNodesAgain
    \/ RemoveNodesThatGoNowhereAgain

Spec == Init /\ [][Next]_vars

----------------------------------------------------------------------------
(* Properties of the graph *)

NodeSet(g) == { g.nodes[i] : i \in 1..Len(g.nodes) }

\* C1: in every graph that construction produces, for all nodes u and v,
\* v is in u.out_nodes if and only if u is in v.in_nodes.
C1_EdgesBidirectional ==
    pc = "built" =>
      \A u \in NodeSet(G) : \A v \in NodeSet(G) :
        (v \in OutNodes(G, u)) <=> (u \in InNodes(G, v))

\* C2: adjacency_list(directed=False) of a built graph is symmetric: when j
\* is listed in row i, i is listed in row j.
C2_AdjacencySymmetric ==
    pc = "built" =>
      LET adj == AdjacencyList(G, FALSE)
      IN \A i \in 1..Len(adj) : \A j \in 1..Len(adj) :
           (j - 1) \in adj[i] => (i - 1) \in adj[j]

\* C3: after _normalize_indices the idx of every node is its position in
\* Graph.nodes, so the indices are exactly 0..N-1, and normalizing once more
\* changes nothing.
C3_IndicesNormalized ==
    pc \in {"normalized", "built"} =>
      /\ \A i \in 1..Len(nodes) : obj[nodes[i]].idx = i - 1
      /\ { obj[n].idx : n \in NodeSet(G) } = 0..(Len(nodes) - 1)
      /\ NormalizeIndicesOf(G) = G

\* a graph in which nodes were removed in front of a node that stays
C3_Witness ==
    /\ pc = "normalized"
    /\ Len(nodes) >= 2
    /\ \E i \in 1..Len(nodes) : nodes[i] # i

Consts(g) == { n \in NodeSet(g) : IsConstant(g, n) }

\* the constant nodes chained to the constant nodes S by edges between
\* constant nodes
RECURSIVE ConstChain(_, _)
ConstChain(g, S) ==
    LET T == S \cup { d \in Consts(g) :
                        \E c \in S : d \in OutNodes(g, c) /\ c \in InNodes(g, d) }
    IN IF T = S THEN S ELSE ConstChain(g, T)

\* C4: after the constant-removal pass no node whose scope contains
\* "::Constant" is left in Graph.nodes, and every node that was an
\* in-neighbour of a removed constant node has an edge, in its out_nodes and
\* in the other's in_nodes, to every node that was an out-neighbour of that
\* constant node or of a constant node chained to it.
C4_ConstantsBridged ==
    [][ (pc = "ops" /\ pc' = "constants_removed") =>
          /\ \A n \in NodeSet(G') : ~IsConstant(G', n)
          /\ \A c \in Consts(G) : \A d \in ConstChain(G, {c}) :
               \A u \in InNodes(G, c) \cap NodeSet(G') :
                 \A v \in OutNodes(G, d) \cap NodeSet(G') :
                   /\ v \in OutNodes(G', u)
                   /\ u \in InNodes(G', v) ]_vars

\* a two-output constant operator on the first trace input whose second
\* output feeds an ordinary operator: two chained constant nodes were removed
\* and the input is wired to the operator
C4_Witness ==
    /\ pc = "constants_removed"
    /\ Len(trace) = 2
    /\ trace[1].scopeName = ScopeN /\ trace[1].kind = KindConstant
    /\ trace[1].inputs = {0} /\ trace[1].n_outputs = 2
    /\ trace[2].scopeName = ScopeN /\ trace[2].kind = KindOp
    /\ trace[2].inputs = {num_inputs_buffs_params + 1}
    /\ Len(obj) = num_inputs_buffs_params + 3
    /\ Len(obj) \in NodeSet(G)
    /\ Len(obj) - 1 \notin NodeSet(G)
    /\ Len(obj) - 2 \notin NodeSet(G)
    /\ Len(obj) \in OutNodes(G, 1)
    /\ 1 \in InNodes(G, Len(obj))

\* C5: after the dead-end pass every node of the graph has a non-empty
\* out_nodes set or is a declared output of the trace, and every declared
\* output that was in the graph before the pass is still in it.
C5_DeadEndsRemoved ==
    [][ (pc = "constants_removed" /\ pc' = "pruned") =>
          /\ \A n \in NodeSet(G') :
               \/ OutNodes(G', n) # {}
               \/ obj'[n].idx \in out_indices'
          /\ \A n \in NodeSet(G) :
               obj[n].idx \in out_indices' => n \in NodeSet(G') ]_vars

\* the pass removed a node and kept a declared output that has no out edge
C5_Witness ==
    /\ pc = "pruned"
    /\ \E n \in NodeSet(G) : OutNodes(G, n) = {} /\ obj[n].idx \in out_indices
    /\ \E n \in 1..Len(obj) : n \notin NodeSet(G) /\ ~IsConstant(G, n)

\* C6: constant removal and dead-end removal, applied with the same trace
\* outputs to a graph that construction has produced, remove no node and
\* change no in_nodes or out_nodes set.
C6_PassesAreNoOps ==
    [][ (pc = "built" /\ pc' = "again") => G' = G ]_vars

\* C7: _remove_nodes leaves the same graph (nodes, node sequence, edges) with
\* reverse=False and with reverse=True, for both conditions.
C7_OrderIndependent ==
    /\ pc = "ops" =>
         RemoveNodes(G, ConstantCondition, FALSE)
           = RemoveNodes(G, ConstantCondition, TRUE)
    /\ pc = "constants_removed" =>
         \A outs \in TraceOutputs :
           RemoveNodes(G, NowhereCondition(outs), FALSE)
             = RemoveNodes(G, NowhereCondition(outs), TRUE)

\* C8: once a trace op with k >= 2 output slots has been processed, its k-1
\* secondary nodes follow its primary node, and the secondary node of slot i
\* has no out edge, the primary node as its only in edge, is in the out_nodes
\* of the primary node, and has the idx of the primary node plus i.
C8_SecondaryNodes ==
    (pc = "ops" /\ trace # <<>>) =>
      LET k == trace[Len(trace)].n_outputs
          primary == nodes[Len(nodes) - k + 1]
      IN k >= 2 =>
           \A i \in 1..(k - 1) :
             LET out_node == nodes[Len(nodes) - k + 1 + i]
             IN /\ OutNodes(G, out_node) = {}
                /\ InNodes(G, out_node) = {primary}
                /\ out_node \in OutNodes(G, primary)
                /\ obj[out_node].idx = obj[primary].idx + i

\* C9: the weights dictionary changes the weight of profiled-layer nodes
\* whose scope is a key only, and a dictionary of one key changes the weight
\* of one node only.
C9_OnlyKeyedLayerChanges ==
    [][ (pc = "normalized" /\ pc' = "built") =>
          LET changed == { n \in NodeSet(G) : obj'[n].weight # obj[n].weight }
          IN /\ \A n \in changed :
                  /\ obj[n].type = "LAYER"
                  /\ \E i \in 1..Len(weights') : weights'[i][1] = obj[n].scope
             /\ Len(weights') = 1 => Cardinality(changed) <= 1 ]_vars

\* C10: no two OP nodes of a built graph have the same scope.
C10_OpScopesUnique ==
    pc = "built" =>
      \A u \in NodeSet(G) : \A v \in NodeSet(G) :
        (u # v /\ obj[u].type = "OP" /\ obj[v].type = "OP")
          => obj[u].scope # obj[v].scope

\* the output slots of the first k trace ops
RECURSIVE SumOutputs(_)
SumOutputs(k) == IF k = 0 THEN 0 ELSE trace[k].n_outputs + SumOutputs(k - 1)

\* the nodes created when the loop of _add_OP_nodes reaches trace op i, all
\* earlier ops having been added
CreatedBefore(i) == num_inputs_buffs_params + SumOutputs(i - 1)

\* trace op i names a producer index for which no node has been created
Dangling(i) == \E x \in trace[i].inputs : x >= CreatedBefore(i)

C15_NodeOrderStable ==
    /\ pc = "ops" => \A i \in 1..Len(nodes) : nodes[i] = i
    /\ pc \in {"constants_removed", "pruned", "normalized", "built", "again"} =>
         \A i \in 1..Len(nodes) : \A j \in 1..Len(nodes) :
           i < j => nodes[i] < nodes[j]

\* after both passes: three nodes survive, two are gone, and a removed node
\* stood between two survivors
C15_Witness ==
    /\ pc = "pruned"
    /\ Len(nodes) = 3
    /\ Len(obj) = 5
    /\ \E i \in 1..(Len(nodes) - 1) : nodes[i + 1] > nodes[i] + 1
    /\ \E n \in 1..Len(obj) : n \notin NodeSet(G) /\ IsConstant(G, n)
    /\ \E n \in 1..Len(obj) : n \notin NodeSet(G) /\ ~IsConstant(G, n)

\* C16: in a finished graph every member of a node's in_nodes or out_nodes
\* is itself in Graph.nodes; adjacency_list() has one row per node, row i is
\* the row of the node with idx i, every entry is in 0..N-1, and
\* get_weights() has N entries.
C16_NoDanglingNeighbours ==
    pc = "built" =>
      LET N == Len(nodes)
          adj == AdjacencyList(G, FALSE)
      IN /\ \A n \in NodeSet(G) :
              /\ InNodes(G, n) \subseteq NodeSet(G)
              /\ OutNodes(G, n) \subseteq NodeSet(G)
         /\ Len(adj) = N
         /\ \A i \in 1..N : obj[nodes[i]].idx = i - 1
         /\ \A i \in 1..N : adj[i] \subseteq 0..(N - 1)
         /\ Len(GetWeights(G)) = N

----------------------------------------------------------------------------
(* _find_encasing_layer over nested profiled layers *)

MaxLayers == 2      \* declared profiled layers

\* profiled layers of a model N: N/a, its sublayer N/a/b, and N/b
ScopeAB == <<"N", "/", "a", "/", "b">>
LayerNames == {ScopeA, ScopeAB, ScopeB}

\* the lists _profiled_layers can hand over, in either order
LayerLists == UNION { [1..k -> LayerNames] : k \in 0..MaxLayers }

\* scope names of trace ops inside and outside of those layers
LayerScopeNames ==
    { ScopeN, ScopeA, ScopeAB, ScopeAB \o <<"/", "c">>,
      ScopeA \o <<"b">>, ScopeB }

LayerTraceOps ==
    { [scopeName |-> s, kind |-> KindOp, inputs |-> ins, n_outputs |-> n] :
        s \in LayerScopeNames, ins \in { {}, {0} }, n \in 1..2 }

AddOPNodeInLayers == AddOPNodeFrom(LayerTraceOps)

InitLayers ==
    /\ NoPartition
    /\ NoOrderedSet
    /\ pc = "io"
    /\ profiled_layers \in LayerLists
    /\ num_inputs \in 1..MaxIO
    /\ num_inputs_buffs_params = 0
    /\ nodes = <<>>
    /\ obj = <<>>
    /\ sets = <<>>
    /\ op_idx = 0
    /\ num_extra_nodes = 0
    /\ trace = <<>>
    /\ out_indices = {}
    /\ weights = <<>>

NextLayers ==
    \/ AddIONodes
    \/ AddOPNodeInLayers

SpecLayers == InitLayers /\ [][NextLayers]_vars

\* the declared scopes that are a prefix of a scope name
PrefixesOf(layers, scopeName) ==
    { layers[k] : k \in { j \in 1..Len(layers) : StartsWith(scopeName, layers[j]) } }

\* the longest of them, the empty string when there is none
LongestPrefix(layers, scopeName) ==
    LET P == PrefixesOf(layers, scopeName)
    IN IF P = {} THEN <<>>
       ELSE CHOOSE p \in P : \A q \in P : Len(q) <= Len(p)

\* the node made for the first output slot of trace op i
PrimaryNode(i) == nodes[CreatedBefore(i) + 1]

\* C14: for every trace op _find_encasing_layer returns the longest declared
\* scope that is a prefix of the op's scope name, the empty string when none
\* is; the op's node is a LAYER with that scope exactly when a prefix exists
\* and an OP otherwise; every op has a node of its own.
C14_LongestEncasingLayer ==
    pc = "ops" =>
      /\ \A i \in 1..Len(trace) :
           LET s == trace[i].scopeName
               n == PrimaryNode(i)
           IN /\ FindEncasingLayer(profiled_layers, s)
                    = LongestPrefix(profiled_layers, s)
              /\ PrefixesOf(profiled_layers, s) # {} =>
                    /\ obj[n].type = "LAYER"
                    /\ obj[n].scope = LongestPrefix(profiled_layers, s)
              /\ PrefixesOf(profiled_layers, s) = {} => obj[n].type = "OP"
      /\ Len(nodes) = num_inputs_buffs_params + SumOutputs(Len(trace))
      /\ \A i \in 1..Len(nodes) : \A j \in 1..Len(nodes) :
           nodes[i] = nodes[j] => i = j

\* two ops inside N/a/b/c with the layers declared as N/a/b, N/a: both
\* resolve to N/a/b, the longer scope, and each has its node
C14_Witness ==
    /\ pc = "ops"
    /\ profiled_layers = <<ScopeAB, ScopeA>>
    /\ Len(trace) = 2
    /\ trace[1].scopeName = ScopeAB \o <<"/", "c">>
    /\ trace[2].scopeName = ScopeAB \o <<"/", "c">>
    /\ obj[PrimaryNode(1)].scope = ScopeAB
    /\ obj[PrimaryNode(2)].scope = ScopeAB
    /\ obj[PrimaryNode(1)].type = "LAYER"
    /\ PrimaryNode(1) # PrimaryNode(2)

----------------------------------------------------------------------------
(* partition_model *)

\* a node weight: a record of the profiler (a tuple) or a plain number
NodeWeights ==
    { [tuple |-> FALSE, forward_time |-> 0, backward_time |-> 0],
      [tuple |-> TRUE, forward_time |-> 1, backward_time |-> 2] }

\* weight_func
WeightFunc(w) ==
    IF w.tuple THEN (100 * (w.forward_time + w.backward_time)) \div 2 ELSE 0

\* the graphs build_graph_from_trace and optimize_graph hand over: directed
\* acyclic graphs, the nodes numbered in the order of the trace
Dags(n) == SUBSET { <<i, j>> \in (1..n) \X (1..n) : i < j }

\* an adjacency list whose rows name every node, neighbour or not
AdjListOfAllNodes(n, es) == [i \in 1..n |-> 1..n]

\* graph.adjacency_list(): the row of node i, out and in neighbours together
AdjList(n, es) ==
    [i \in 1..n |-> { j \in 1..n : <<i, j>> \in es \/ <<j, i>> \in es }]

\* what part_graph can hand back: a number of parts and a list of ids; the
\* solver is a library behind part_graph and nothing bounds its answer
PartGraphResults(n, k) ==
    { <<np, part>> :
        np \in 1..k,
        part \in UNION { [1..len -> 0..k] : len \in {n - 1, n} } }

\* lines 7-24: the graph, its adjacency list and weights, the call of the
\* solver
PartGraph ==
    /\ ppc = "start"
    /\ \E n \in 1..MaxNodes : \E es \in Dags(n) : \E w \in [1..n -> NodeWeights] :
         /\ edges' = es
         /\ nodew' = w
         /\ Len(AdjList(n, es)) = Len(w)          \* the assert of line 20
         /\ solver_weights' = [i \in 1..n |-> WeightFunc(w[i])]
         /\ \E r \in PartGraphResults(n, MaxParts) :
              /\ nparts' = r[1]
              /\ partition' = r[2]
    /\ ppc' = "post_process"
    /\ UNCHANGED <<gvars, ovars>>

\* the partition-level graph: an edge from part a to part b when an edge
\* leads from a node of a to a node of b
InducedPartitionGraph(es, part) ==
    { <<part[e[1]], part[e[2]]>> :
        e \in { x \in es : /\ x[1] \in DOMAIN part
                           /\ x[2] \in DOMAIN part
                           /\ part[x[1]] # part[x[2]] } }

\* the vertices reached from the vertices S along the edges es
RECURSIVE ReachedFrom(_, _)
ReachedFrom(es, S) ==
    LET T == S \cup { e[2] : e \in { x \in es : x[1] \in S } }
    IN IF T = S THEN S ELSE ReachedFrom(es, T)

Acyclic(es) ==
    \A e \in es : e[1] \notin ReachedFrom(es, {e[2]})

\* post_process_partition and the return of partition_model
PostProcessPartition ==
    /\ ppc = "post_process"
    /\ ppc' = IF Acyclic(InducedPartitionGraph(edges, partition))
              THEN "returned"
              ELSE "InconsistentPartitionError"
    /\ UNCHANGED <<edges, nodew, solver_weights, nparts, partition>>
    /\ UNCHANGED <<gvars, ovars>>

InitPartition ==
    /\ NoGraph
    /\ NoOrderedSet
    /\ ppc = "start"
    /\ edges = {}
    /\ nodew = <<>>
    /\ solver_weights = <<>>
    /\ nparts = 0
    /\ partition = <<>>

NextPartition ==
    \/ PartGraph
    \/ PostProcessPartition

SpecPartition == InitPartition /\ [][NextPartition]_vars

\* the partition-id vector is well formed
WellFormed(n, np, part) ==
    /\ Len(part) = n
    /\ \A i \in 1..Len(part) : part[i] >= 0 /\ part[i] < np

\* C11: whenever partition_model hands the solver's vector to
\* post_process_partition or returns it, the vector has one id per node and
\* every id is in [0, nparts); any other answer of the solver ends in a
\* PartitioningError.
C11_SolverResultValidated ==
    /\ ppc \in {"post_process", "returned"} =>
         WellFormed(Len(nodew), nparts, partition)
    /\ (ppc # "start" /\ ~WellFormed(Len(nodew), nparts, partition)) =>
         ppc = "PartitioningError"

\* every part induces a connected subgraph of the adjacency list
Contiguous(adj, part) ==
    \A p \in { part[i] : i \in DOMAIN part } :
      LET members == { i \in DOMAIN part : part[i] = p }
          inside == { <<i, j>> \in members \X members : j \in adj[i] }
      IN \A i \in members : ReachedFrom(inside, {i}) = members

Forest(n, es) ==
    \A e \in es :
      LET rest == es \ {e}
          both == rest \cup { <<x[2], x[1]>> : x \in rest }
      IN e[2] \notin ReachedFrom(both, {e[1]})

----------------------------------------------------------------------------
(* OrderedSet (pytorch_Gpipe/utils.py) *)

MaxKeys == 3        \* different keys handed to an OrderedSet
MaxCells == 5       \* list cells an OrderedSet allocates, the sentinel included
MaxUpdate == 2      \* keys of one update call

Keys == 1..MaxKeys

\* the sentinel: self.end, the first cell made
End == 1

\* the key of the sentinel
None == 0

\* an OrderedSet: the cells [key, prev, next] made so far and self.map
OS == [cell |-> cell, map |-> map]

\* self.map[key] = c
MapSet(m, key, c) ==
    [k \in (DOMAIN m) \cup {key} |-> IF k = key THEN c ELSE m[k]]

\* self.map.pop(key), the dictionary that is left
MapPop(m, key) == [k \in (DOMAIN m) \ {key} |-> m[k]]

\* add
AddKey(os, key) ==
    IF key \notin DOMAIN os.map
    THEN LET curr == os.cell[End].prev
             new == Len(os.cell) + 1
             c1 == Append(os.cell, [key |-> key, prev |-> curr, next |-> End])
             c2 == [c1 EXCEPT ![curr].next = new]
             c3 == [c2 EXCEPT ![End].prev = new]
         IN [cell |-> c3, map |-> MapSet(os.map, key, new)]
    ELSE os

\* update
RECURSIVE UpdateKeys(_, _, _)
UpdateKeys(os, keys, i) ==
    IF i > Len(keys) THEN os
    ELSE UpdateKeys(AddKey(os, keys[i]), keys, i + 1)

\* discard without the assignment next[1] = prev
DiscardKeyForwardOnly(os, key) ==
    IF key \in DOMAIN os.map
    THEN LET c == os.map[key]
             prev == os.cell[c].prev
             next == os.cell[c].next
         IN [cell |-> [os.cell EXCEPT ![prev].next = next],
             map |-> MapPop(os.map, key)]
    ELSE os

\* discard
DiscardKey(os, key) ==
    IF key \in DOMAIN os.map
    THEN LET c == os.map[key]
             prev == os.cell[c].prev
             next == os.cell[c].next
             c1 == [os.cell EXCEPT ![prev].next = next]
             c2 == [c1 EXCEPT ![next].prev = prev]
         IN [cell |-> c2, map |-> MapPop(os.map, key)]
    ELSE os

\* __iter__: the keys from curr on; the walk is cut after fuel cells
RECURSIVE IterFrom(_, _, _)
IterFrom(os, curr, fuel) ==
    IF curr = End \/ fuel = 0 THEN <<>>
    ELSE <<os.cell[curr].key>> \o IterFrom(os, os.cell[curr].next, fuel - 1)

Iter(os) == IterFrom(os, os.cell[End].next, Len(os.cell))

\* __reversed__
RECURSIVE ReversedFrom(_, _, _)
ReversedFrom(os, curr, fuel) ==
    IF curr = End \/ fuel = 0 THEN <<>>
    ELSE <<os.cell[curr].key>> \o ReversedFrom(os, os.cell[curr].prev, fuel - 1)

Reversed(os) == ReversedFrom(os, os.cell[End].prev, Len(os.cell))

\* __len__
LenOf(os) == Cardinality(DOMAIN os.map)

\* difference_update: for k in self, with the generator standing at curr;
\* after the body the generator reads the next field of the cell it stands
\* on, discarded or not
RECURSIVE DifferenceFrom(_, _, _, _)
DifferenceFrom(os, curr, other, fuel) ==
    IF curr = End \/ fuel = 0 THEN os
    ELSE LET k == os.cell[curr].key
             os1 == IF k \in other THEN DiscardKey(os, k) ELSE os
         IN DifferenceFrom(os1, os1.cell[curr].next, other, fuel - 1)

\* the order the set is to have: s without the key
Without(s, key) == SelectSeq(s, LAMBDA k : k # key)

\* the order the set is to have after the keys are added one by one
RECURSIVE Inserted(_, _, _)
Inserted(s, keys, i) ==
    IF i > Len(keys) THEN s
    ELSE Inserted(IF \E j \in 1..Len(s) : s[j] = keys[i]
                  THEN s ELSE Append(s, keys[i]),
                  keys, i + 1)

Add ==
    \E key \in Keys :
      LET os == AddKey(OS, key)
      IN /\ Len(os.cell) <= MaxCells
         /\ cell' = os.cell
         /\ map' = os.map
         /\ inserted' = Inserted(inserted, <<key>>, 1)
         /\ UNCHANGED <<gvars, pvars>>

Update ==
    \E keys \in UNION { [1..n -> Keys] : n \in 0..MaxUpdate } :
      LET os == UpdateKeys(OS, keys, 1)
      IN /\ Len(os.cell) <= MaxCells
         /\ cell' = os.cell
         /\ map' = os.map
         /\ inserted' = Inserted(inserted, keys, 1)
         /\ UNCHANGED <<gvars, pvars>>

Discard ==
    \E key \in Keys :
      LET os == DiscardKey(OS, key)
      IN /\ cell' = os.cell
         /\ map' = os.map
         /\ inserted' = Without(inserted, key)
         /\ UNCHANGED <<gvars, pvars>>

\* pop: KeyError on the empty set, which is left as it was
Pop ==
    \E last \in BOOLEAN :
      IF LenOf(OS) = 0
      THEN UNCHANGED vars
      ELSE LET key == IF last THEN cell[cell[End].prev].key
                              ELSE cell[cell[End].next].key
               os == DiscardKey(OS, key)
           IN /\ cell' = os.cell
              /\ map' = os.map
              /\ inserted' = IF last
                             THEN SubSeq(inserted, 1, Len(inserted) - 1)
                             ELSE Tail(inserted)
              /\ UNCHANGED <<gvars, pvars>>

DifferenceUpdate ==
    \E other \in SUBSET Keys :
      LET os == DifferenceFrom(OS, cell[End].next, other, Len(cell))
      IN /\ cell' = os.cell
         /\ map' = os.map
         /\ inserted' = SelectSeq(inserted, LAMBDA k : k \notin other)
         /\ UNCHANGED <<gvars, pvars>>

\* OrderedSet(): the sentinel points at itself, the map is empty
InitOrderedSet ==
    /\ NoGraph
    /\ NoPartition
    /\ cell = <<[key |-> None, prev |-> End, next |-> End]>>
    /\ map = <<>>
    /\ inserted = <<>>

NextOrderedSet ==
    \/ Add
    \/ Update
    \/ Discard
    \/ Pop
    \/ DifferenceUpdate

SpecOrderedSet == InitOrderedSet /\ [][NextOrderedSet]_vars

\* C17: after any sequence of add, update, discard, pop and
\* difference_update, iteration yields every present key once, in the order
\* of its latest insertion while absent; reversed iteration yields the
\* reverse; len is the number of keys yielded.
C17_IterationOrder ==
    cell # <<>> =>
      LET it == Iter(OS)
      IN /\ it = inserted
         /\ Reversed(OS) = Reverse(it)
         /\ LenOf(OS) = Len(it)
         /\ { it[i] : i \in 1..Len(it) } = DOMAIN map
         /\ \A i \in 1..Len(it) : \A j \in 1..Len(it) : it[i] = it[j] => i = j

\* key 1 was discarded and added again after 2 and 3: it is now the last
C17_Witness ==
    /\ Len(cell) = MaxCells
    /\ Iter(OS) = <<2, 3, 1>>
    /\ Reversed(OS) = <<1, 3, 2>>
    /\ LenOf(OS) = 3

====
